---- MODULE Spec2Model ----
(***************************************************************************)
(* Model of the chart screen of shtanga0x/grapher:                         *)
(*   src/src/components/SecondScreen.tsx  (selection, primary series store,*)
(*     secondary range cache, row builder)                                 *)
(*   src/src/api/binance.ts               (secondary series fetch)         *)
(*                                                                         *)
(* Conventions.                                                            *)
(*   - A PricePoint is a record [t |-> seconds, p |-> price]; prices are   *)
(*     exact integers (hundredths), so a sum is an exact sum.              *)
(*   - A nullable value is a sequence of length 0 (null) or 1 (<<v>>).     *)
(*   - One action is one browser event (a click, a fetch settling)         *)
(*     together with the React render and the effect run that follow it;   *)
(*     handler closures therefore see the state of the last render, and an *)
(*     async continuation sees the values its closure captured when the    *)
(*     effect ran.                                                         *)
(*   - App renders SecondScreen only while screen = 'second' and changes   *)
(*     appState.crypto only together with screen, so the prop crypto is    *)
(*     fixed from mount to unmount; another kind means leaving the screen  *)
(*     and mounting a new SecondScreen.                                    *)
(***************************************************************************)
EXTENDS Integers, Sequences, FiniteSets, Bags, TLC

VARIABLES
    screen,          \* state `screen` of App
    crypto,          \* appState.crypto of App, the prop `crypto` of SecondScreen
    selectedBets,    \* keys of the Map selectedBets
    priceHistories,  \* Map betKey -> PricePoint[] (a function on the loaded keys)
    cryptoPrices,    \* PricePoint[]
    loadingBets,     \* Set<string>
    loadingCrypto,   \* boolean
    error,           \* string | null
    cryptoCacheRef,  \* cryptoCacheRef.current
    cryptoRuns,      \* bag of fetchCrypto invocations suspended at an await
    chartRows,       \* value of the chartData memo at the last render
    fetchedBets,     \* keys for which fetchPriceHistory was called since the mount
    issuedCrypto,    \* calls of fetchCryptoPriceHistory issued by the last event
    lastOp,          \* the last event handled
    nearestIn,       \* arguments of a stand-alone findNearestPrice call
    nearestOut,      \* its result
    klinesCall       \* a stand-alone fetchCryptoPriceHistory call, step by step

vars == <<screen, crypto, selectedBets, priceHistories, cryptoPrices,
          loadingBets, loadingCrypto, error, cryptoCacheRef, cryptoRuns,
          chartRows, fetchedBets, issuedCrypto, lastOp, nearestIn, nearestOut,
          klinesCall>>

----------------------------------------------------------------------------
(* Bounds of the model *)

MaxRuns == 2        \* fetchCrypto invocations suspended at the same time
MaxHistoryLen == 2  \* points in one response of fetchPriceHistory
MaxSeriesLen == 3   \* length of the series given to a stand-alone findNearestPrice
MaxRowSeriesLen == 2 \* length of a stored history given to a stand-alone chartData

----------------------------------------------------------------------------
(* Values *)

Null == <<>>
Some(v) == <<v>>
IsNull(o) == o = <<>>
Val(o) == o[1]

Min(a, b) == IF a <= b THEN a ELSE b
Max(a, b) == IF a >= b THEN a ELSE b
Abs(x) == IF x < 0 THEN -x ELSE x

Point(t, p) == [t |-> t, p |-> p]

\* generateBetKey(market.id, type) for the markets of the event
BetKeys == {"m1-YES", "m1-NO"}

\* CryptoOption without 'NONE'
CryptoKinds == {"BTC", "ETH"}
CryptoOption == CryptoKinds \cup {"NONE"}

\* default of the parameter maxDeltaSeconds of findNearestPrice
DefaultMaxDelta == 270
\* third argument of the findNearestPrice call for the crypto series
CryptoMaxDelta == 120

----------------------------------------------------------------------------
(* Array helpers *)

\* Array.prototype.sort((a, b) => a.t - b.t): stable, ascending by t
RECURSIVE InsertByT(_, _)
InsertByT(s, x) ==
    IF s = <<>> THEN <<x>>
    ELSE IF s[Len(s)].t <= x.t THEN Append(s, x)
    ELSE Append(InsertByT(SubSeq(s, 1, Len(s) - 1), x), s[Len(s)])

\* variant of SortByT: the array is copied but not sorted
SortByTKeepingOrder(s) == s

RECURSIVE SortByT(_)
SortByT(s) ==
    IF s = <<>> THEN <<>>
    ELSE InsertByT(SortByT(SubSeq(s, 1, Len(s) - 1)), s[Len(s)])

\* variant of DedupByT: no element is filtered out
DedupByTKeepingAll(s) == s

\* arr.filter((price, index, arr) => index === 0 || price.t !== arr[index - 1].t)
DedupByT(s) ==
    LET keep(i) == i = 1 \/ s[i].t # s[i - 1].t
        RECURSIVE F(_)
        F(i) == IF i > Len(s) THEN <<>>
                ELSE (IF keep(i) THEN <<s[i]>> ELSE <<>>) \o F(i + 1)
    IN F(1)

\* variant of SortedSeq: the comparator is (a, b) => b - a
RECURSIVE SortedSeqDescending(_)
SortedSeqDescending(S) ==
    IF S = {} THEN <<>>
    ELSE LET m == CHOOSE x \in S : \A y \in S : x >= y
         IN <<m>> \o SortedSeqDescending(S \ {m})

\* Array.from(keys).sort((a, b) => a - b) for a set of numbers
RECURSIVE SortedSeq(_)
SortedSeq(S) ==
    IF S = {} THEN <<>>
    ELSE LET m == CHOOSE x \in S : \A y \in S : x <= y
         IN <<m>> \o SortedSeq(S \ {m})

IsSortedByT(s) == \A i \in 1..(Len(s) - 1) : s[i].t <= s[i + 1].t
IsStrictByT(s) == \A i \in 1..(Len(s) - 1) : s[i].t < s[i + 1].t
TimesOf(s) == {s[i].t : i \in 1..Len(s)}
PointsOf(s) == {s[i] : i \in 1..Len(s)}

----------------------------------------------------------------------------
(* findNearestPrice *)

\* the while loop: leftmost index (0-based) whose t is not below the target
RECURSIVE InsertionPoint(_, _, _, _)
InsertionPoint(history, targetTimestamp, left, right) ==
    IF left < right
    THEN LET mid == (left + right) \div 2
         IN IF history[mid + 1].t < targetTimestamp
            THEN InsertionPoint(history, targetTimestamp, mid + 1, right)
            ELSE InsertionPoint(history, targetTimestamp, left, mid)
    ELSE left

\* variant of PickNearest: only a candidate at the target itself is accepted
RECURSIVE PickExact(_, _, _, _, _)
PickExact(candidates, i, targetTimestamp, maxDeltaSeconds, acc) ==
    IF i > Len(candidates) THEN acc
    ELSE LET point == candidates[i]
             delta == Abs(point.t - targetTimestamp)
             better == (IsNull(acc[2]) \/ delta < Val(acc[2])) /\ delta <= 0
         IN PickExact(candidates, i + 1, targetTimestamp, maxDeltaSeconds,
                      IF better THEN <<Some(point), Some(delta)>> ELSE acc)

\* the for loop over the candidates; acc = <<nearest, minDelta>>, minDelta
\* null standing for Infinity
RECURSIVE PickNearest(_, _, _, _, _)
PickNearest(candidates, i, targetTimestamp, maxDeltaSeconds, acc) ==
    IF i > Len(candidates) THEN acc
    ELSE LET point == candidates[i]
             delta == Abs(point.t - targetTimestamp)
             better == (IsNull(acc[2]) \/ delta < Val(acc[2]))
                       /\ delta <= maxDeltaSeconds
         IN PickNearest(candidates, i + 1, targetTimestamp, maxDeltaSeconds,
                        IF better THEN <<Some(point), Some(delta)>> ELSE acc)

\* variant of Candidates: the element before the insertion point is not pushed
CandidatesAtInsertionOnly(history, left) ==
    IF left < Len(history) THEN <<history[left + 1]>> ELSE <<>>

\* the two pushes into `candidates`; left is a 0-based index
Candidates(history, left) ==
    (IF left < Len(history) THEN <<history[left + 1]>> ELSE <<>>)
    \o (IF left > 0 THEN <<history[left]>> ELSE <<>>)

findNearestPrice(history, targetTimestamp, maxDeltaSeconds) ==
    IF Len(history) = 0 THEN Null
    ELSE LET left == InsertionPoint(history, targetTimestamp, 0, Len(history))
             candidates == Candidates(history, left)
             nearest == PickNearest(candidates, 1, targetTimestamp,
                                    maxDeltaSeconds, <<Null, Null>>)[1]
         IN IF IsNull(nearest) THEN Null ELSE Some(Val(nearest).p)

----------------------------------------------------------------------------
(* timeRange and chartData (the two memos over the selection) *)

\* useMemo "timeRange": null, or Some([min, max]) over the selected keys that
\* have a non-empty stored history
timeRange(sb, ph) ==
    LET withData == {k \in sb : k \in DOMAIN ph /\ Len(ph[k]) > 0}
        firsts == {ph[k][1].t : k \in withData}
        lasts == {ph[k][Len(ph[k])].t : k \in withData}
    IN IF withData = {} THEN Null
       ELSE Some([min |-> CHOOSE x \in firsts : \A y \in firsts : x <= y,
                  max |-> CHOOSE x \in lasts : \A y \in lasts : x >= y])

RECURSIVE SumOver(_, _)
SumOver(S, f) ==
    IF S = {} THEN 0
    ELSE LET k == CHOOSE x \in S : TRUE IN f[k] + SumOver(S \ {k}, f)

\* variant of SumRecorded: a sum over the keys that yielded a value
SumRecordedPartial(betKeysLength, validBetsForSum) ==
    betKeysLength > 1 /\ validBetsForSum > 1

\* "if (betKeys.length > 1 && validBetsForSum === betKeys.length)"
SumRecorded(betKeysLength, validBetsForSum) ==
    betKeysLength > 1 /\ validBetsForSum = betKeysLength

\* variant of chartDataPoint: the crypto series is searched with the default
\* tolerance
chartDataPointOneTolerance(sb, ph, cr, cp, timestamp) ==
    LET price == [k \in sb |->
                     IF k \in DOMAIN ph
                     THEN findNearestPrice(ph[k], timestamp, DefaultMaxDelta)
                     ELSE Null]
        valid == {k \in sb : ~IsNull(price[k])}
        validBetsForSum == Cardinality(valid)
        sum == SumOver(valid, [k \in valid |-> Val(price[k])])
        hasSum == SumRecorded(Cardinality(sb), validBetsForSum)
        cryptoPrice == IF cr # "NONE" /\ Len(cp) > 0
                       THEN findNearestPrice(cp, timestamp, DefaultMaxDelta)
                       ELSE Null
        labels == {"timestamp"} \cup valid
                  \cup (IF hasSum THEN {"sum"} ELSE {})
                  \cup (IF ~IsNull(cryptoPrice) THEN {cr} ELSE {})
    IN [l \in labels |->
           IF l = "timestamp" THEN timestamp
           ELSE IF l \in valid THEN Val(price[l])
           ELSE IF l = "sum" THEN sum
           ELSE Val(cryptoPrice)]

\* the body of the loop "for (const timestamp of timestamps)": one ChartDataPoint,
\* a function on "timestamp" and on the labels that received a value
chartDataPoint(sb, ph, cr, cp, timestamp) ==
    LET price == [k \in sb |->
                     IF k \in DOMAIN ph
                     THEN findNearestPrice(ph[k], timestamp, DefaultMaxDelta)
                     ELSE Null]
        valid == {k \in sb : ~IsNull(price[k])}
        validBetsForSum == Cardinality(valid)
        sum == SumOver(valid, [k \in valid |-> Val(price[k])])
        hasSum == SumRecorded(Cardinality(sb), validBetsForSum)
        cryptoPrice == IF cr # "NONE" /\ Len(cp) > 0
                       THEN findNearestPrice(cp, timestamp, CryptoMaxDelta)
                       ELSE Null
        labels == {"timestamp"} \cup valid
                  \cup (IF hasSum THEN {"sum"} ELSE {})
                  \cup (IF ~IsNull(cryptoPrice) THEN {cr} ELSE {})
    IN [l \in labels |->
           IF l = "timestamp" THEN timestamp
           ELSE IF l \in valid THEN Val(price[l])
           ELSE IF l = "sum" THEN sum
           ELSE Val(cryptoPrice)]

\* variant of chartData: the timestamps are collected from every stored
\* history, selected or not
chartDataOverStore(sb, ph, cr, cp) ==
    LET betTimes == UNION {TimesOf(ph[k]) : k \in DOMAIN ph}
        cryptoTimes == IF cr # "NONE" /\ Len(cp) > 0 THEN TimesOf(cp) ELSE {}
        timestamps == SortedSeq(betTimes \cup cryptoTimes)
    IN [i \in 1..Len(timestamps) |->
           chartDataPoint(sb, ph, cr, cp, timestamps[i])]

\* useMemo "chartData"
chartData(sb, ph, cr, cp) ==
    LET betTimes == UNION {TimesOf(ph[k]) : k \in sb \cap DOMAIN ph}
        cryptoTimes == IF cr # "NONE" /\ Len(cp) > 0 THEN TimesOf(cp) ELSE {}
        timestamps == SortedSeq(betTimes \cup cryptoTimes)
    IN [i \in 1..Len(timestamps) |->
           chartDataPoint(sb, ph, cr, cp, timestamps[i])]

----------------------------------------------------------------------------
(* fetchCryptoPriceHistory against a fixed upstream *)

\* query parameter limit of the klines request
KlineLimit == 1000
\* "last candle time + 1 minute", in milliseconds
PageAdvanceMs == 60000

\* open times (seconds) of the candles the exchange holds, per symbol
UpstreamTimes(kind) ==
    IF kind = "BTC" THEN {50, 100, 150, 200, 250} ELSE {150, 200, 250}

\* close price of the candle of a symbol at an open time
ClosePrice(kind, t) == (IF kind = "BTC" THEN 1000 ELSE 2000) + t

\* response.data of one klines request: the first up to `limit` candles with
\* startTime <= open time <= endTime (milliseconds), ascending
KlinesPage(kind, startTimeMs, endTimeMs) ==
    LET inRange == {t \in UpstreamTimes(kind) :
                       startTimeMs <= t * 1000 /\ t * 1000 <= endTimeMs}
        all == SortedSeq(inRange)
        n == Min(Len(all), KlineLimit)
    IN [i \in 1..n |-> <<all[i] * 1000, ClosePrice(kind, all[i])>>]

\* the while loop of fetchCryptoPriceHistory: allKlines after the loop
RECURSIVE KlinesLoop(_, _, _, _)
KlinesLoop(kind, currentStartTime, endTimeMs, allKlines) ==
    IF currentStartTime < endTimeMs
    THEN LET klines == KlinesPage(kind, currentStartTime, endTimeMs)
         IN IF Len(klines) = 0 THEN allKlines
            ELSE KlinesLoop(kind,
                            klines[Len(klines)][1] + PageAdvanceMs,
                            endTimeMs,
                            allKlines \o [i \in 1..Len(klines) |->
                                Point(klines[i][1] \div 1000, klines[i][2])])
    ELSE allKlines

\* the value fetchCryptoPriceHistory resolves to when no request fails
fetchCryptoPriceHistory(kind, startTime, endTime) ==
    SortByT(KlinesLoop(kind, startTime * 1000, endTime * 1000, <<>>))

\* fetchCryptoPriceHistory sends at least one request (so it can suspend and
\* it can fail) exactly when the loop condition holds on entry
SendsRequest(startTime, endTime) == startTime * 1000 < endTime * 1000

----------------------------------------------------------------------------
(* The effect "Fetch crypto prices when time range changes" *)

CacheEntry(cr, min, max) == [crypto |-> cr, min |-> min, max |-> max]
Call(cr, min, max) == [crypto |-> cr, min |-> min, max |-> max]

\* variant of NeedsFullFetch: the comparison of the kinds is inverted
NeedsFullFetchSameKind(cache, cr, cp) ==
    IsNull(cache) \/ Val(cache).crypto = cr \/ Len(cp) = 0

\* "if (!cache || cache.crypto !== crypto || cryptoPrices.length === 0)"
NeedsFullFetch(cache, cr, cp) ==
    IsNull(cache) \/ Val(cache).crypto # cr \/ Len(cp) = 0

\* "if (timeRange.min >= cache.min && timeRange.max <= cache.max)"
FullyCovered(tr, cache) == tr.min >= cache.min /\ tr.max <= cache.max

\* variant of FetchRanges: <= and >= in place of < and >
FetchRangesNonStrict(tr, cache) ==
    (IF tr.min <= cache.min THEN <<[min |-> tr.min, max |-> cache.min]>> ELSE <<>>)
    \o (IF tr.max >= cache.max THEN <<[min |-> cache.max, max |-> tr.max]>> ELSE <<>>)

\* variant of FetchRanges: the later range starts at cache.min
FetchRangesFromCacheMin(tr, cache) ==
    (IF tr.min < cache.min THEN <<[min |-> tr.min, max |-> cache.min]>> ELSE <<>>)
    \o (IF tr.max > cache.max THEN <<[min |-> cache.min, max |-> tr.max]>> ELSE <<>>)

\* the array fetchRanges after the two conditional pushes
FetchRanges(tr, cache) ==
    (IF tr.min < cache.min THEN <<[min |-> tr.min, max |-> cache.min]>> ELSE <<>>)
    \o (IF tr.max > cache.max THEN <<[min |-> cache.max, max |-> tr.max]>> ELSE <<>>)

\* One invocation of fetchCrypto suspended at its await.  crypto, timeRange,
\* cryptoPrices and cache are the values its closure captured; done holds the
\* indices of fetchRanges whose promise has fulfilled.
NewRun(cr, tr, cp, cache, full, ranges) ==
    [crypto |-> cr, timeRange |-> tr, cryptoPrices |-> cp, cache |-> cache,
     full |-> full, fetchRanges |-> ranges,
     done |-> {i \in 1..Len(ranges) :
                  ~SendsRequest(ranges[i].min, ranges[i].max)}]

RunSettled(run) == run.done = 1..Len(run.fetchRanges)

RECURSIVE Flat(_)
Flat(arrays) ==
    IF arrays = <<>> THEN <<>> ELSE Head(arrays) \o Flat(Tail(arrays))

\* what a run passes to setCryptoPrices once every promise has fulfilled
RunPrices(run) ==
    LET newPricesArrays ==
            [i \in 1..Len(run.fetchRanges) |->
                fetchCryptoPriceHistory(run.crypto, run.fetchRanges[i].min,
                                        run.fetchRanges[i].max)]
    IN IF run.full THEN newPricesArrays[1]
       ELSE DedupByT(SortByT(run.cryptoPrices \o Flat(newPricesArrays)))

\* variant of RunCache: a full fetch records timeRange.min as both bounds
RunCacheMinTwice(run) ==
    IF run.full
    THEN CacheEntry(run.crypto, run.timeRange.min, run.timeRange.min)
    ELSE CacheEntry(run.crypto,
                    Min(run.timeRange.min, Val(run.cache).min),
                    Max(run.timeRange.max, Val(run.cache).max))

\* what a run assigns to cryptoCacheRef.current once every promise has fulfilled
RunCache(run) ==
    IF run.full
    THEN CacheEntry(run.crypto, run.timeRange.min, run.timeRange.max)
    ELSE CacheEntry(run.crypto,
                    Min(run.timeRange.min, Val(run.cache).min),
                    Max(run.timeRange.max, Val(run.cache).max))

Outcome(cp, cache, runs, loading, issued, branch) ==
    [cryptoPrices |-> cp, cache |-> cache, runs |-> runs, loading |-> loading,
     issued |-> issued, branch |-> branch]

\* variant of Start: the ranges are fetched one after the other, so only the
\* first call is made before the run suspends
StartIssuingFirstOnly(run, cp, cache, runs) ==
    LET issued == [i \in 1..Min(1, Len(run.fetchRanges)) |->
                      Call(run.crypto, run.fetchRanges[i].min,
                           run.fetchRanges[i].max)]
    IN IF RunSettled(run)
       THEN Outcome(RunPrices(run), Some(RunCache(run)), runs, FALSE, issued,
                    "fetchCrypto")
       ELSE Outcome(cp, cache, runs (+) SetToBag({run}), TRUE, issued,
                    "fetchCrypto")

\* fetchCrypto() up to its first suspension (or to its end when it never
\* suspends), started with `run`
Start(run, cp, cache, runs) ==
    LET issued == [i \in 1..Len(run.fetchRanges) |->
                      Call(run.crypto, run.fetchRanges[i].min,
                           run.fetchRanges[i].max)]
    IN IF RunSettled(run)
       THEN Outcome(RunPrices(run), Some(RunCache(run)), runs, FALSE, issued,
                    "fetchCrypto")
       ELSE Outcome(cp, cache, runs (+) SetToBag({run}), TRUE, issued,
                    "fetchCrypto")

\* variant of RunEffect: the early return does not test the kind
RunEffectIgnoringKind(cr, tr, cp, cache, runs, loading) ==
    IF IsNull(tr)
    THEN Outcome(<<>>, Null, runs, loading, <<>>, "reset")
    ELSE IF NeedsFullFetch(cache, cr, cp)
    THEN Start(NewRun(cr, Val(tr), cp, cache, TRUE,
                      <<[min |-> Val(tr).min, max |-> Val(tr).max]>>),
               cp, cache, runs)
    ELSE IF FullyCovered(Val(tr), Val(cache))
    THEN Outcome(cp, cache, runs, loading, <<>>, "fetchCrypto")
    ELSE LET fetchRanges == FetchRanges(Val(tr), Val(cache))
         IN IF Len(fetchRanges) = 0
            THEN Outcome(cp, cache, runs, loading, <<>>, "fetchCrypto")
            ELSE Start(NewRun(cr, Val(tr), cp, cache, FALSE, fetchRanges),
                       cp, cache, runs)

\* the body of the effect, given the values of the render it belongs to
RunEffect(cr, tr, cp, cache, runs, loading) ==
    IF cr = "NONE" \/ IsNull(tr)
    THEN Outcome(<<>>, Null, runs, loading, <<>>, "reset")
    ELSE IF NeedsFullFetch(cache, cr, cp)
    THEN Start(NewRun(cr, Val(tr), cp, cache, TRUE,
                      <<[min |-> Val(tr).min, max |-> Val(tr).max]>>),
               cp, cache, runs)
    ELSE IF FullyCovered(Val(tr), Val(cache))
    THEN Outcome(cp, cache, runs, loading, <<>>, "fetchCrypto")
    ELSE LET fetchRanges == FetchRanges(Val(tr), Val(cache))
         IN IF Len(fetchRanges) = 0
            THEN Outcome(cp, cache, runs, loading, <<>>, "fetchCrypto")
            ELSE Start(NewRun(cr, Val(tr), cp, cache, FALSE, fetchRanges),
                       cp, cache, runs)

\* the dependency array [crypto, timeRange]: timeRange is a fresh object
\* whenever its memo recomputes to a non-null value
DepsChanged(oldCrypto, newCrypto, oldTr, newTr, memoRecomputed) ==
    \/ oldCrypto # newCrypto
    \/ memoRecomputed /\ ~(IsNull(oldTr) /\ IsNull(newTr))

\* The render and effect run that follow an event which set selectedBets to sb,
\* priceHistories to ph and the prop crypto to cr.
Render(op, cr, sb, ph, memoRecomputed) ==
    LET oldTr == timeRange(selectedBets, priceHistories)
        newTr == timeRange(sb, ph)
        ran == DepsChanged(crypto, cr, oldTr, newTr, memoRecomputed)
        out == IF ran
               THEN RunEffect(cr, newTr, cryptoPrices, cryptoCacheRef,
                              cryptoRuns, loadingCrypto)
               ELSE Outcome(cryptoPrices, cryptoCacheRef, cryptoRuns,
                            loadingCrypto, <<>>, "none")
    IN /\ BagCardinality(out.runs) <= MaxRuns
       /\ screen' = "second"
       /\ crypto' = cr
       /\ selectedBets' = sb
       /\ priceHistories' = ph
       /\ cryptoPrices' = out.cryptoPrices
       /\ cryptoCacheRef' = out.cache
       /\ cryptoRuns' = out.runs
       /\ loadingCrypto' = out.loading
       /\ issuedCrypto' = out.issued
       /\ chartRows' = chartData(sb, ph, cr, out.cryptoPrices)
       /\ lastOp' = [op |-> op, effect |-> out.branch]

----------------------------------------------------------------------------
(* Upstream of fetchPriceHistory *)

\* timestamps (seconds) of the points the market API holds for the token of a key
PrimaryTimes(k) == IF k = "m1-YES" THEN {100, 200} ELSE {50, 250}
PrimaryPrice(k, t) == (IF k = "m1-YES" THEN 30 ELSE 60) + t \div 50

\* the arrays `history.history` a response for key k may carry: up to
\* MaxHistoryLen of the token's points, one per timestamp, in any order
HistoryResponses(k) ==
    LET points == {Point(t, PrimaryPrice(k, t)) : t \in PrimaryTimes(k)}
        arrays == UNION {[1..n -> points] : n \in 0..MaxHistoryLen}
    IN {h \in arrays : \A i, j \in 1..Len(h) : i # j => h[i].t # h[j].t}

----------------------------------------------------------------------------
(* State machine of App and SecondScreen *)

NoError == Null
HistoryError(k) == Some(<<"Failed to fetch price history for", k>>)
CryptoError(cr) == Some(<<"Failed to fetch price data", cr>>)

\* the useState initial values and the useRef initial value of SecondScreen
Unmounted ==
    /\ selectedBets = {}
    /\ priceHistories = <<>>
    /\ cryptoPrices = <<>>
    /\ loadingBets = {}
    /\ loadingCrypto = FALSE
    /\ error = NoError
    /\ cryptoCacheRef = Null
    /\ cryptoRuns = EmptyBag
    /\ chartRows = <<>>
    /\ fetchedBets = {}
    /\ issuedCrypto = <<>>

Init ==
    /\ screen = "first"
    /\ crypto = "NONE"
    /\ Unmounted
    /\ lastOp = [op |-> <<"start">>, effect |-> "none"]
    /\ nearestIn = Null
    /\ nearestOut = Null
    /\ klinesCall = Null

\* the kind of the cached series of the mounted screen, 'NONE' without one
CoveredKind ==
    IF ~IsNull(cryptoCacheRef) /\ Len(cryptoPrices) > 0
    THEN Val(cryptoCacheRef).crypto ELSE "NONE"

\* handleNavigateToChart: SecondScreen mounts with its initial state and the
\* effect runs for the first time (timeRange is null)
NavigateToChart(cr) ==
    /\ screen = "first"
    /\ Render(<<"navigateToChart",
                 IF lastOp.op[1] = "back" THEN lastOp.op[2] ELSE "NONE">>,
              cr, {}, <<>>, TRUE)
    /\ UNCHANGED <<loadingBets, error, fetchedBets, nearestIn,
                   nearestOut, klinesCall>>

\* variant of Back: the suspended continuations of the screen that is left
\* still reach the screen mounted next
BackKeepingRuns ==
    /\ screen = "second"
    /\ screen' = "first"
    /\ crypto' = "NONE"
    /\ selectedBets' = {}
    /\ priceHistories' = <<>>
    /\ cryptoPrices' = <<>>
    /\ loadingBets' = {}
    /\ loadingCrypto' = FALSE
    /\ error' = NoError
    /\ cryptoCacheRef' = Null
    /\ cryptoRuns' = cryptoRuns
    /\ chartRows' = <<>>
    /\ fetchedBets' = {}
    /\ issuedCrypto' = <<>>
    /\ lastOp' = [op |-> <<"back", CoveredKind>>, effect |-> "none"]
    /\ UNCHANGED <<nearestIn, nearestOut, klinesCall>>

\* handleBack: SecondScreen unmounts; its state is discarded and what its
\* suspended continuations do later reaches no mounted component
Back ==
    /\ screen = "second"
    /\ screen' = "first"
    /\ crypto' = "NONE"
    /\ selectedBets' = {}
    /\ priceHistories' = <<>>
    /\ cryptoPrices' = <<>>
    /\ loadingBets' = {}
    /\ loadingCrypto' = FALSE
    /\ error' = NoError
    /\ cryptoCacheRef' = Null
    /\ cryptoRuns' = EmptyBag
    /\ chartRows' = <<>>
    /\ fetchedBets' = {}
    /\ issuedCrypto' = <<>>
    /\ lastOp' = [op |-> <<"back", CoveredKind>>, effect |-> "none"]
    /\ UNCHANGED <<nearestIn, nearestOut, klinesCall>>

\* variant of NeedsHistory: the stored histories are not consulted
NeedsHistoryUnselected(k, sb, ph) == k \notin sb

\* variant of NeedsHistory: || in place of &&
NeedsHistoryEither(k, sb, ph) == k \notin sb \/ k \notin DOMAIN ph

\* "if (!selectedBets.has(betKey) && !priceHistories.has(betKey))"
NeedsHistory(k, sb, ph) == k \notin sb /\ k \notin DOMAIN ph

\* handleBetToggle up to its await; the checkbox is disabled while the key is
\* in loadingBets
ToggleBet(k) ==
    /\ screen = "second"
    /\ k \notin loadingBets
    /\ LET sb == IF k \in selectedBets THEN selectedBets \ {k}
                 ELSE selectedBets \cup {k}
       IN IF NeedsHistory(k, selectedBets, priceHistories)
          THEN /\ loadingBets' = loadingBets \cup {k}
               /\ error' = NoError
               /\ fetchedBets' = fetchedBets \cup {k}
               /\ Render(<<"toggle", IF k \in fetchedBets THEN "refetch"
                                     ELSE "fetch">>,
                         crypto, sb, priceHistories, TRUE)
          ELSE /\ UNCHANGED <<loadingBets, error, fetchedBets>>
               /\ Render(<<"toggle", IF k \in sb THEN "select"
                                     ELSE "deselect">>,
                         crypto, sb, priceHistories, TRUE)
    /\ UNCHANGED <<nearestIn, nearestOut, klinesCall>>

\* variant of HistoryFetched: the updater starts from an empty Map instead of
\* a copy of the previous one
HistoryFetchedFreshMap(k, history) ==
    /\ screen = "second"
    /\ k \in loadingBets
    /\ loadingBets' = loadingBets \ {k}
    /\ Render(<<"historyFetched", k, history>>, crypto, selectedBets,
              (k :> SortByT(history)), TRUE)
    /\ UNCHANGED <<error, fetchedBets, nearestIn, nearestOut, klinesCall>>

\* variant of HistoryFetched: the selection is rebuilt from the keys of the
\* store
HistoryFetchedSelectingStored(k, history) ==
    /\ screen = "second"
    /\ k \in loadingBets
    /\ loadingBets' = loadingBets \ {k}
    /\ Render(<<"historyFetched", k, history>>, crypto,
              selectedBets \cup DOMAIN priceHistories \cup {k},
              (k :> SortByT(history)) @@ priceHistories, TRUE)
    /\ UNCHANGED <<error, fetchedBets, nearestIn, nearestOut, klinesCall>>

\* handleBetToggle after its await, try branch and finally; the fetch of k is
\* outstanding exactly while k is in loadingBets
HistoryFetched(k, history) ==
    /\ screen = "second"
    /\ k \in loadingBets
    /\ loadingBets' = loadingBets \ {k}
    /\ Render(<<"historyFetched", k, history>>, crypto, selectedBets,
              (k :> SortByT(history)) @@ priceHistories, TRUE)
    /\ UNCHANGED <<error, fetchedBets, nearestIn, nearestOut, klinesCall>>

\* variant of HistoryFailed: the key is not removed from selectedBets
HistoryFailedNoRollback(k) ==
    /\ screen = "second"
    /\ k \in loadingBets
    /\ error' = HistoryError(k)
    /\ loadingBets' = loadingBets \ {k}
    /\ Render(<<"historyFailed">>, crypto, selectedBets, priceHistories, TRUE)
    /\ UNCHANGED <<fetchedBets, nearestIn, nearestOut, klinesCall>>

\* variant of HistoryFailed: no finally block, the key stays in loadingBets
HistoryFailedStillLoading(k) ==
    /\ screen = "second"
    /\ k \in loadingBets
    /\ error' = HistoryError(k)
    /\ loadingBets' = loadingBets
    /\ Render(<<"historyFailed">>, crypto, selectedBets \ {k},
              priceHistories, TRUE)
    /\ UNCHANGED <<fetchedBets, nearestIn, nearestOut, klinesCall>>

\* handleBetToggle after its await, catch branch and finally
HistoryFailed(k) ==
    /\ screen = "second"
    /\ k \in loadingBets
    /\ error' = HistoryError(k)
    /\ loadingBets' = loadingBets \ {k}
    /\ Render(<<"historyFailed">>, crypto, selectedBets \ {k},
              priceHistories, TRUE)
    /\ UNCHANGED <<fetchedBets, nearestIn, nearestOut, klinesCall>>

\* one fetchCryptoPriceHistory promise of a suspended run fulfils; when it is
\* the last one, the run resumes in its try block and runs to its end
CryptoFetched(run, i) ==
    /\ screen = "second"
    /\ BagIn(run, cryptoRuns)
    /\ i \in (1..Len(run.fetchRanges)) \ run.done
    /\ LET after == [run EXCEPT !.done = @ \cup {i}]
           rest == cryptoRuns (-) SetToBag({run})
       IN IF RunSettled(after)
          THEN /\ cryptoPrices' = RunPrices(after)
               /\ cryptoCacheRef' = Some(RunCache(after))
               /\ cryptoRuns' = rest
               /\ loadingCrypto' = FALSE
               /\ lastOp' = [op |-> <<"cryptoSettled",
                                         IF run.full THEN "full" ELSE "delta">>,
                             effect |-> "none"]
          ELSE /\ cryptoRuns' = rest (+) SetToBag({after})
               /\ lastOp' = [op |-> <<"cryptoFetched">>, effect |-> "none"]
               /\ UNCHANGED <<cryptoPrices, cryptoCacheRef, loadingCrypto>>
    /\ chartRows' = chartData(selectedBets, priceHistories, crypto, cryptoPrices')
    /\ issuedCrypto' = <<>>
    /\ UNCHANGED <<screen, crypto, selectedBets, priceHistories, loadingBets,
                   error, fetchedBets, nearestIn, nearestOut, klinesCall>>

\* variant of CryptoFailed: the catch block also clears the selection, as the
\* catch block of handleBetToggle removes its key
CryptoFailedClearingSelection(run, i) ==
    /\ screen = "second"
    /\ BagIn(run, cryptoRuns)
    /\ i \in (1..Len(run.fetchRanges)) \ run.done
    /\ cryptoRuns' = cryptoRuns (-) SetToBag({run})
    /\ error' = CryptoError(run.crypto)
    /\ loadingCrypto' = FALSE
    /\ issuedCrypto' = <<>>
    /\ selectedBets' = {}
    /\ chartRows' = chartData({}, priceHistories, crypto, cryptoPrices)
    /\ lastOp' = [op |-> <<"cryptoFailed", Cardinality(run.done)>>,
                  effect |-> "none"]
    /\ UNCHANGED <<screen, crypto, priceHistories, cryptoPrices,
                   cryptoCacheRef, loadingBets, fetchedBets,
                   nearestIn, nearestOut, klinesCall>>

\* variant of CryptoFailed: the catch block merges what had already arrived
CryptoFailedMergingPartial(run, i) ==
    /\ screen = "second"
    /\ BagIn(run, cryptoRuns)
    /\ i \in (1..Len(run.fetchRanges)) \ run.done
    /\ cryptoRuns' = cryptoRuns (-) SetToBag({run})
    /\ cryptoPrices' =
           DedupByT(SortByT(run.cryptoPrices \o Flat(
               [j \in 1..Len(run.fetchRanges) |->
                   IF j \in run.done
                   THEN fetchCryptoPriceHistory(run.crypto,
                            run.fetchRanges[j].min, run.fetchRanges[j].max)
                   ELSE <<>>])))
    /\ error' = CryptoError(run.crypto)
    /\ loadingCrypto' = FALSE
    /\ issuedCrypto' = <<>>
    /\ chartRows' = chartData(selectedBets, priceHistories, crypto, cryptoPrices')
    /\ lastOp' = [op |-> <<"cryptoFailed", Cardinality(run.done)>>,
                  effect |-> "none"]
    /\ UNCHANGED <<screen, crypto, selectedBets, priceHistories,
                   cryptoCacheRef, loadingBets, fetchedBets,
                   nearestIn, nearestOut, klinesCall>>

\* one fetchCryptoPriceHistory promise of a suspended run rejects: Promise.all
\* (or the single await) rejects, the run resumes in its catch block
CryptoFailed(run, i) ==
    /\ screen = "second"
    /\ BagIn(run, cryptoRuns)
    /\ i \in (1..Len(run.fetchRanges)) \ run.done
    /\ cryptoRuns' = cryptoRuns (-) SetToBag({run})
    /\ error' = CryptoError(run.crypto)
    /\ loadingCrypto' = FALSE
    /\ issuedCrypto' = <<>>
    /\ lastOp' = [op |-> <<"cryptoFailed", Cardinality(run.done)>>,
                  effect |-> "none"]
    /\ UNCHANGED <<screen, crypto, selectedBets, priceHistories, cryptoPrices,
                   cryptoCacheRef, loadingBets, chartRows, fetchedBets, nearestIn, nearestOut, klinesCall>>

\* onClose of the Alert
CloseAlert ==
    /\ screen = "second"
    /\ error # NoError
    /\ error' = NoError
    /\ issuedCrypto' = <<>>
    /\ lastOp' = [op |-> <<"closeAlert">>, effect |-> "none"]
    /\ UNCHANGED <<screen, crypto, selectedBets, priceHistories, cryptoPrices,
                   cryptoCacheRef, cryptoRuns, loadingBets, loadingCrypto,
                   chartRows, fetchedBets, nearestIn,
                   nearestOut, klinesCall>>

Runs == BagToSet(cryptoRuns)

Next ==
    \/ \E cr \in CryptoOption : NavigateToChart(cr)
    \/ Back
    \/ \E k \in BetKeys : ToggleBet(k)
    \/ \E k \in BetKeys : \E history \in HistoryResponses(k) :
           HistoryFetched(k, history)
    \/ \E k \in BetKeys : HistoryFailed(k)
    \/ \E run \in Runs : \E i \in 1..Len(run.fetchRanges) : CryptoFetched(run, i)
    \/ \E run \in Runs : \E i \in 1..Len(run.fetchRanges) : CryptoFailed(run, i)
    \/ CloseAlert

Spec == Init /\ [][Next]_vars

\* the behaviours in which no request to the exchange fails
NextCryptoSucceeds ==
    \/ \E cr \in CryptoOption : NavigateToChart(cr)
    \/ Back
    \/ \E k \in BetKeys : ToggleBet(k)
    \/ \E k \in BetKeys : \E history \in HistoryResponses(k) :
           HistoryFetched(k, history)
    \/ \E k \in BetKeys : HistoryFailed(k)
    \/ \E run \in Runs : \E i \in 1..Len(run.fetchRanges) : CryptoFetched(run, i)
    \/ CloseAlert

SpecCryptoSucceeds == Init /\ [][NextCryptoSucceeds]_vars

----------------------------------------------------------------------------
(* findNearestPrice on its own: arguments drawn from bounded sets *)

NearestTimes == {0, 100, 300, 400}
NearestPrices == {1, 2}
NearestTargets == {-50, 0, 60, 100, 200, 300, 350, 700}
NearestDeltas == {0, 50, 100, DefaultMaxDelta}

\* the arrays over a set of points that are sorted ascending by t
SortedSeries(points, maxLen) ==
    {h \in UNION {[1..n -> points] : n \in 0..maxLen} : IsSortedByT(h)}

InitNearest ==
    /\ screen = "first"
    /\ crypto = "NONE"
    /\ Unmounted
    /\ lastOp = [op |-> <<"start">>, effect |-> "none"]
    /\ \E history \in SortedSeries({Point(t, p) : t \in NearestTimes,
                                                 p \in NearestPrices},
                                   MaxSeriesLen) :
       \E targetTimestamp \in NearestTargets :
       \E maxDeltaSeconds \in NearestDeltas :
           nearestIn = Some([history |-> history,
                             targetTimestamp |-> targetTimestamp,
                             maxDeltaSeconds |-> maxDeltaSeconds])
    /\ nearestOut = Null
    /\ klinesCall = Null

CallFindNearestPrice ==
    /\ ~IsNull(nearestIn)
    /\ IsNull(nearestOut)
    /\ nearestOut' = Some(findNearestPrice(Val(nearestIn).history,
                                           Val(nearestIn).targetTimestamp,
                                           Val(nearestIn).maxDeltaSeconds))
    /\ UNCHANGED <<screen, crypto, selectedBets, priceHistories, cryptoPrices,
                   loadingBets, loadingCrypto, error, cryptoCacheRef,
                   cryptoRuns, chartRows, fetchedBets,
                   issuedCrypto, lastOp, nearestIn, klinesCall>>

NextNearest == CallFindNearestPrice

SpecNearest == InitNearest /\ [][NextNearest]_vars

----------------------------------------------------------------------------
(* chartData on its own: the memo's inputs drawn from bounded sets *)

RowKeys == BetKeys \cup {"m2-YES"}
RowTimes == {10, 20, 400}
RowPrice(k, t) ==
    IF k = "m1-YES" THEN (IF t = 10 THEN 30 ELSE IF t = 20 THEN 40 ELSE 50)
    ELSE IF k = "m1-NO" THEN (IF t = 10 THEN 60 ELSE IF t = 20 THEN 70 ELSE 80)
    ELSE 5
RowHistories(k) ==
    SortedSeries({Point(t, RowPrice(k, t)) : t \in RowTimes}, MaxRowSeriesLen)
RowCryptoPrices == <<Point(20, 1020), Point(130, 1130)>>

\* every Map from some of the keys to a stored (sorted) history
RowStores ==
    UNION {{ph \in [D -> UNION {RowHistories(k) : k \in D}] :
               \A k \in D : ph[k] \in RowHistories(k)} : D \in SUBSET RowKeys}

InitRows ==
    /\ screen = "second"
    /\ crypto \in {"NONE", "BTC"}
    /\ selectedBets \in SUBSET RowKeys
    /\ priceHistories \in RowStores
    /\ cryptoPrices = IF crypto = "NONE" THEN <<>> ELSE RowCryptoPrices
    /\ loadingBets = selectedBets \ DOMAIN priceHistories
    /\ loadingCrypto = FALSE
    /\ error = NoError
    /\ cryptoCacheRef = Null
    /\ cryptoRuns = EmptyBag
    /\ chartRows = <<>>
    /\ fetchedBets = selectedBets \cup DOMAIN priceHistories
    /\ issuedCrypto = <<>>
    /\ lastOp = [op |-> <<"start">>, effect |-> "none"]
    /\ nearestIn = Null
    /\ nearestOut = Null
    /\ klinesCall = Null

BuildChartData ==
    /\ lastOp.op = <<"start">>
    /\ chartRows' = chartData(selectedBets, priceHistories, crypto, cryptoPrices)
    /\ lastOp' = [op |-> <<"chartData">>, effect |-> "none"]
    /\ UNCHANGED <<screen, crypto, selectedBets, priceHistories, cryptoPrices,
                   loadingBets, loadingCrypto, error, cryptoCacheRef,
                   cryptoRuns, fetchedBets, issuedCrypto,
                   nearestIn, nearestOut, klinesCall>>

NextRows == BuildChartData

SpecRows == InitRows /\ [][NextRows]_vars

----------------------------------------------------------------------------
(* Two market sides selected with no secondary series: the screen driven    *)
(* against an upstream holding A = {(0, 0.20), (600, 0.25)} for m1-YES and  *)
(* B = {(0, 0.80), (600, 0.75)} for m1-NO                                   *)

PairTimes == {0, 600}
PairPrice(k, t) ==
    IF k = "m1-YES" THEN (IF t = 0 THEN 20 ELSE 25)
    ELSE (IF t = 0 THEN 80 ELSE 75)

\* the arrays `history.history` a response for key k may carry, in any order
PairResponses(k) ==
    LET points == {Point(t, PairPrice(k, t)) : t \in PairTimes}
        arrays == UNION {[1..n -> points] : n \in 0..MaxHistoryLen}
    IN {h \in arrays : \A i, j \in 1..Len(h) : i # j => h[i].t # h[j].t}

NextPair ==
    \/ NavigateToChart("NONE")
    \/ Back
    \/ \E k \in BetKeys : ToggleBet(k)
    \/ \E k \in BetKeys : \E history \in PairResponses(k) :
           HistoryFetched(k, history)
    \/ \E k \in BetKeys : HistoryFailed(k)
    \/ CloseAlert

SpecPair == Init /\ [][NextPair]_vars

\* the promise of fetchPriceHistory for key k settles
CompletePairHistory(k) ==
    \/ \E history \in PairResponses(k) : HistoryFetched(k, history)
    \/ HistoryFailed(k)

\* Every request that was sent is answered or fails, and a settled promise
\* resumes its continuation.  With no secondary kind no fetchCrypto run is
\* ever suspended, so the continuation of a primary fetch is enabled for as
\* long as its key is loading.
SpecPairFair ==
    /\ SpecPair
    /\ \A k \in BetKeys : WF_vars(CompletePairHistory(k))

----------------------------------------------------------------------------
(* fetchCryptoPriceHistory on its own, one loop iteration per step, against *)
(* an exchange that holds one candle per interval                           *)

\* the exchange holds the candles with open times 0, interval, ...,
\* MaxCandles * interval (seconds)
MaxCandles == 2100

\* candle intervals (seconds): the '5m' the request asks for and the 1m of
\* the comments
KlineIntervals == {60, 300}

\* startTime and endTime (seconds) of the calls, in terms of the interval
KlineStarts(interval) == {0, 7, interval, 1000 * interval}
KlineEnds(interval) ==
    {0, 7, interval, 999 * interval, 1000 * interval, 1500 * interval,
     2000 * interval + 7, 2500 * interval}

\* response.data of one klines request: the first up to `limit` candles of
\* the exchange with startTime <= open time <= endTime (milliseconds), as
\* rows <<open time, close price>>
GridPage(kind, interval, startTimeMs, endTimeMs) ==
    LET step == interval * 1000
        first == (startTimeMs + step - 1) \div step
        last == Min(endTimeMs \div step, MaxCandles)
        n == IF last >= first THEN Min(last - first + 1, KlineLimit) ELSE 0
    IN [i \in 1..n |-> <<(first + i - 1) * step,
                         ClosePrice(kind, (first + i - 1) * interval)>>]

\* the lines before the loop
KlinesEntered(kind, interval, startTime, endTime) ==
    [crypto |-> kind, interval |-> interval,
     startTime |-> startTime, endTime |-> endTime,
     currentStartTime |-> startTime * 1000, endTimeMs |-> endTime * 1000,
     allKlines |-> <<>>, requests |-> 0, pc |-> "while",
     result |-> <<>>]

InitKlines ==
    /\ screen = "first"
    /\ crypto = "NONE"
    /\ Unmounted
    /\ lastOp = [op |-> <<"start">>, effect |-> "none"]
    /\ nearestIn = Null
    /\ nearestOut = Null
    /\ \E interval \in KlineIntervals :
       \E startTime \in KlineStarts(interval) :
       \E endTime \in KlineEnds(interval) :
           klinesCall = Some(KlinesEntered("BTC", interval, startTime, endTime))

KlinesFrame ==
    UNCHANGED <<screen, crypto, selectedBets, priceHistories, cryptoPrices,
                loadingBets, loadingCrypto, error, cryptoCacheRef,
                cryptoRuns, chartRows, fetchedBets, issuedCrypto, lastOp,
                nearestIn, nearestOut>>

\* "allKlines.sort((a, b) => a.t - b.t)": the sort is stable, so it leaves
\* an array that is already ascending by t as it is
SortKlines(allKlines) ==
    IF IsSortedByT(allKlines) THEN allKlines ELSE SortByT(allKlines)

\* "return allKlines.sort((a, b) => a.t - b.t)"
KlinesReturned(call) ==
    [call EXCEPT !.pc = "returned", !.result = SortKlines(call.allKlines)]

\* the loop test is false: the call leaves the loop and returns
KlinesReturn ==
    /\ ~IsNull(klinesCall)
    /\ Val(klinesCall).pc = "while"
    /\ ~(Val(klinesCall).currentStartTime < Val(klinesCall).endTimeMs)
    /\ klinesCall' = Some(KlinesReturned(Val(klinesCall)))
    /\ KlinesFrame

\* variant of KlinesAdvance: the next page starts where this one started
KlinesAdvanceFromPageStart(call, klines) == call.currentStartTime

\* variant of KlinesAdvance: the next page starts at the last candle
KlinesAdvanceFromLastCandle(call, klines) == klines[Len(klines)][1]

\* "currentStartTime = lastKlineTime + 60000"
KlinesAdvance(call, klines) == klines[Len(klines)][1] + PageAdvanceMs

\* one iteration whose request is answered: an empty page breaks out of the
\* loop, another page is pushed and moves currentStartTime
KlinesIteration ==
    /\ ~IsNull(klinesCall)
    /\ Val(klinesCall).pc = "while"
    /\ Val(klinesCall).currentStartTime < Val(klinesCall).endTimeMs
    /\ LET call == Val(klinesCall)
           klines == GridPage(call.crypto, call.interval,
                              call.currentStartTime, call.endTimeMs)
       IN klinesCall' = Some(
              IF Len(klines) = 0
              THEN KlinesReturned([call EXCEPT !.requests = @ + 1])
              ELSE [call EXCEPT
                       !.requests = @ + 1,
                       !.allKlines = @ \o [i \in 1..Len(klines) |->
                           Point(klines[i][1] \div 1000, klines[i][2])],
                       !.currentStartTime = KlinesAdvance(call, klines)])
    /\ KlinesFrame

\* one iteration whose request fails: axios.get rejects and so does the call
KlinesRequestFails ==
    /\ ~IsNull(klinesCall)
    /\ Val(klinesCall).pc = "while"
    /\ Val(klinesCall).currentStartTime < Val(klinesCall).endTimeMs
    /\ klinesCall' = Some([Val(klinesCall) EXCEPT !.requests = @ + 1,
                                                  !.pc = "rejected"])
    /\ KlinesFrame

NextKlines == KlinesReturn \/ KlinesIteration \/ KlinesRequestFails

\* a call that is not suspended runs on, and a request is answered or fails
SpecKlines == InitKlines /\ [][NextKlines]_vars /\ WF_vars(NextKlines)

----------------------------------------------------------------------------
(* Properties of the row builder and of findNearestPrice *)

Rows == {chartRows[i] : i \in 1..Len(chartRows)}
RowsAt(t) == {row \in Rows : row["timestamp"] = t}
RowsBuilt == lastOp.op = <<"chartData">>

\* a stored history of key k has a sample within the primary tolerance of t
HasValueAt(k, t) ==
    /\ k \in DOMAIN priceHistories
    /\ \E j \in 1..Len(priceHistories[k]) :
           Abs(priceHistories[k][j].t - t) <= DefaultMaxDelta

\* C5: in every row built by chartData, `sum` is present if and only if at
\* least two keys are selected and every selected key, one without a stored
\* history included, has a sample within the primary tolerance of the row's
\* timestamp; a present sum is the sum of the values recorded for the selected
\* keys, all of which are recorded.
C5_SumIffEverySelectedPresent ==
    \A row \in Rows :
        /\ "sum" \in DOMAIN row
               <=> /\ Cardinality(selectedBets) >= 2
                   /\ \A k \in selectedBets : HasValueAt(k, row["timestamp"])
        /\ "sum" \in DOMAIN row
               => /\ selectedBets \subseteq DOMAIN row
                  /\ row["sum"] = SumOver(selectedBets,
                                          [k \in selectedBets |-> row[k]])

\* C5 witness: three keys selected, one row carries a sum and another row,
\* where one of them has no sample in tolerance, carries values but no sum
C5_Witness ==
    /\ RowsBuilt
    /\ Cardinality(selectedBets) = 3
    /\ \E row \in Rows : "sum" \in DOMAIN row
    /\ \E row \in Rows : /\ "sum" \notin DOMAIN row
                         /\ Cardinality(DOMAIN row \cap selectedBets) = 2

C6_Inputs ==
    /\ crypto = "NONE"
    /\ selectedBets = {"m1-YES", "m1-NO"}
    /\ DOMAIN priceHistories = {"m1-YES", "m1-NO"}
    /\ priceHistories["m1-YES"] = <<Point(10, 30), Point(20, 40)>>
    /\ priceHistories["m1-NO"] = <<Point(10, 60)>>

\* C6 as stated: with A = {10: 0.30, 20: 0.40}, B = {10: 0.60}, no secondary
\* series and the default tolerance, the row at t=10 has sum 0.90 and the row
\* at t=20 has no sum.
C6_AsStated ==
    (RowsBuilt /\ C6_Inputs) =>
        /\ \E row \in RowsAt(10) : "sum" \in DOMAIN row /\ row["sum"] = 90
        /\ RowsAt(20) # {}
        /\ \A row \in RowsAt(20) : "sum" \notin DOMAIN row

\* C6 amended: with the same inputs the row at t=10 has A=0.30, B=0.60 and
\* sum 0.90, and the row at t=20 has A=0.40, B=0.60 (B's sample at t=10 is 10
\* seconds away, within the 270 seconds) and sum 1.00.
C6_BothRowsHaveSum ==
    (RowsBuilt /\ C6_Inputs) =>
        chartRows = << ("timestamp" :> 10 @@ "m1-YES" :> 30 @@ "m1-NO" :> 60
                            @@ "sum" :> 90),
                       ("timestamp" :> 20 @@ "m1-YES" :> 40 @@ "m1-NO" :> 60
                            @@ "sum" :> 100) >>

C6_Witness == RowsBuilt /\ C6_Inputs /\ Len(chartRows) = 2

NearestCalled == ~IsNull(nearestOut)

\* C7: for a series sorted ascending by t, a target t and a tolerance w >= 0,
\* findNearestPrice returns null exactly when no sample lies within w of t,
\* and otherwise the price of a sample whose distance to t is at most w and
\* minimal over the series; when t is a sample's timestamp, the price of a
\* sample with that timestamp.
C7_NearestIsLinearScanMinimum ==
    NearestCalled =>
        LET history == Val(nearestIn).history
            t == Val(nearestIn).targetTimestamp
            w == Val(nearestIn).maxDeltaSeconds
            result == Val(nearestOut)
            dist(i) == Abs(history[i].t - t)
            within == {i \in 1..Len(history) : dist(i) <= w}
        IN /\ IsNull(result) <=> within = {}
           /\ ~IsNull(result) =>
                  \E i \in within :
                      /\ history[i].p = Val(result)
                      /\ \A j \in 1..Len(history) : dist(i) <= dist(j)
           /\ (\E j \in 1..Len(history) : history[j].t = t) =>
                  /\ ~IsNull(result)
                  /\ \E i \in 1..Len(history) :
                         history[i].t = t /\ history[i].p = Val(result)

\* C7 witness: a three-point series whose nearest sample lies before the
\* insertion point and is returned
C7_Witness ==
    /\ NearestCalled
    /\ ~IsNull(Val(nearestOut))
    /\ Len(Val(nearestIn).history) = 3
    /\ Val(nearestIn).targetTimestamp = 200
    /\ Val(nearestIn).history[1].t = 0
    /\ Val(nearestIn).history[2].t = 100
    /\ Val(nearestIn).history[3].t = 400
    /\ Val(nearestIn).maxDeltaSeconds = 100

----------------------------------------------------------------------------
(* Properties of the secondary range cache *)

\* this step re-evaluated the timeRange memo of a mounted screen to a span and
\* a kind is active: the effect calls fetchCrypto for that span
EnsureCoveredCalled ==
    /\ screen = "second" /\ screen' = "second"
    /\ selectedBets' # selectedBets \/ priceHistories' # priceHistories
    /\ crypto' # "NONE"
    /\ ~IsNull(timeRange(selectedBets', priceHistories'))

Requested == Val(timeRange(selectedBets', priceHistories'))

Inside(span, cache) == cache.min <= span.min /\ span.max <= cache.max

IssuedSet(issued) == {issued[i] : i \in 1..Len(issued)}

\* the calls that reach the network (fetchCryptoPriceHistory sends no request
\* for an empty span)
NetworkCalls(issued) == {c \in IssuedSet(issued) : c.min < c.max}

\* C1: with a non-empty cached series of the current kind covering
\* [cMin, cMax] and a requested span [rMin, rMax] not inside it, the fetch is
\* issued for [rMin, cMin] if rMin < cMin and for [cMax, rMax] if rMax > cMax,
\* and for nothing else; when the fetches of such a call have all succeeded the
\* covered interval is [min(cMin, rMin), max(cMax, rMax)].
C1_DeltaRangesExact ==
    [][ /\ ( /\ EnsureCoveredCalled
             /\ ~IsNull(cryptoCacheRef)
             /\ Val(cryptoCacheRef).crypto = crypto'
             /\ Len(cryptoPrices) > 0
             /\ ~Inside(Requested, Val(cryptoCacheRef)) )
           => LET c == Val(cryptoCacheRef)
                  r == Requested
                  expected ==
                      (IF r.min < c.min THEN {Call(crypto', r.min, c.min)} ELSE {})
                      \cup
                      (IF r.max > c.max THEN {Call(crypto', c.max, r.max)} ELSE {})
              IN /\ IssuedSet(issuedCrypto') = expected
                 /\ Len(issuedCrypto') = Cardinality(expected)
        /\ \A run \in Runs : \A i \in 1..Len(run.fetchRanges) :
               ( /\ CryptoFetched(run, i)
                 /\ ~run.full
                 /\ run.done \cup {i} = 1..Len(run.fetchRanges) )
               => LET c == Val(run.cache)
                      r == run.timeRange
                  IN /\ ~IsNull(cryptoCacheRef')
                     /\ Val(cryptoCacheRef').crypto = run.crypto
                     /\ Val(cryptoCacheRef').min = (IF c.min <= r.min THEN c.min ELSE r.min)
                     /\ Val(cryptoCacheRef').max = (IF c.max >= r.max THEN c.max ELSE r.max)
      ]_vars

\* C1 witness: coverage [100, 200], span [50, 250], the two calls [50, 100]
\* and [200, 250] just issued
C1_Witness ==
    /\ cryptoCacheRef = Some(CacheEntry("BTC", 100, 200))
    /\ timeRange(selectedBets, priceHistories) = Some([min |-> 50, max |-> 250])
    /\ issuedCrypto = <<Call("BTC", 50, 100), Call("BTC", 200, 250)>>

C3_FailureLeavesCoverage ==
    [][ /\ BagCardinality(cryptoRuns') > BagCardinality(cryptoRuns)
           => UNCHANGED <<cryptoCacheRef, cryptoPrices>>
        /\ \A run \in Runs : \A i \in 1..Len(run.fetchRanges) :
               /\ (CryptoFetched(run, i)
                   /\ run.done \cup {i} # 1..Len(run.fetchRanges))
                  => UNCHANGED <<cryptoCacheRef, cryptoPrices>>
               /\ (lastOp'.op[1] = "cryptoFailed" /\ BagIn(run, cryptoRuns)
                   /\ ~BagIn(run, cryptoRuns'))
                  => UNCHANGED <<cryptoCacheRef, cryptoPrices>>
      ]_vars

\* C3 witness: a two-range call failed after one of its fetches had succeeded,
\* with coverage in place
C3_Witness ==
    /\ lastOp.op = <<"cryptoFailed", 1>>
    /\ ~IsNull(cryptoCacheRef)
    /\ Len(cryptoPrices) > 0
    /\ error = CryptoError(crypto)

\* the points the exchange holds for a kind with min <= t <= max
UpstreamPoints(kind, min, max) ==
    {Point(t, ClosePrice(kind, t)) :
        t \in {u \in UpstreamTimes(kind) : min <= u /\ u <= max}}

\* C4: a change of the kind leaves no coverage (no bounds, empty series);
\* every call made while no bounds are recorded fetches the whole requested
\* span in one fetch; when that fetch succeeds the series is its result and
\* the bounds are the requested bounds.
C4_KindChangeThenFullFetch ==
    [][ /\ crypto' # crypto
           => IsNull(cryptoCacheRef') /\ cryptoPrices' = <<>>
        /\ (EnsureCoveredCalled /\ IsNull(cryptoCacheRef))
           => issuedCrypto' = <<Call(crypto', Requested.min, Requested.max)>>
        /\ \A run \in Runs :
               (CryptoFetched(run, 1) /\ run.full)
               => /\ cryptoCacheRef' = Some(CacheEntry(run.crypto,
                                                       run.timeRange.min,
                                                       run.timeRange.max))
                  /\ IsStrictByT(cryptoPrices')
                  /\ PointsOf(cryptoPrices') =
                         UpstreamPoints(run.crypto, run.timeRange.min,
                                        run.timeRange.max)
      ]_vars

\* C4 witness: the screen that showed a cached BTC series was left and the
\* chart has just been opened with ETH: no bounds, no series
C4_Witness ==
    /\ lastOp.op = <<"navigateToChart", "BTC">>
    /\ crypto = "ETH"
    /\ IsNull(cryptoCacheRef)
    /\ cryptoPrices = <<>>

----------------------------------------------------------------------------
(* Properties of the selection and the primary series store *)

\* this step calls fetchPriceHistory for key k
IssuesHistoryFetch(k) == k \notin loadingBets /\ k \in loadingBets'

\* C8: when the fetch of a selected key fails, afterwards the key is not
\* selected, has no stored series, the error names it, and every other key's
\* membership, stored series and outstanding fetch are as before.
C8_FailedSelectRolledBack ==
    [][ \A k \in BetKeys :
            (k \in loadingBets /\ lastOp'.op = <<"historyFailed">>
             /\ k \notin loadingBets')
            => /\ k \notin selectedBets'
               /\ k \notin DOMAIN priceHistories'
               /\ error' = HistoryError(k)
               /\ \A j \in BetKeys \ {k} :
                      /\ j \in selectedBets' <=> j \in selectedBets
                      /\ j \in loadingBets' <=> j \in loadingBets
                      /\ j \in DOMAIN priceHistories' <=> j \in DOMAIN priceHistories
                      /\ j \in DOMAIN priceHistories
                             => priceHistories'[j] = priceHistories[j]
      ]_vars

\* C8 witness: the fetch of m1-NO just failed while m1-YES is selected with
\* its own fetch outstanding
C8_Witness ==
    /\ lastOp.op = <<"historyFailed">>
    /\ error = HistoryError("m1-NO")
    /\ selectedBets = {"m1-YES"}
    /\ loadingBets = {"m1-YES"}

\* C9: once a key has a stored series, until the screen is left the series
\* stays stored unchanged and no fetch for the key is issued, whether the key
\* is deselected or selected again.
C9_NoRefetchAfterSuccess ==
    [][ \A k \in DOMAIN priceHistories :
            screen' = "second"
            => /\ k \in DOMAIN priceHistories'
               /\ priceHistories'[k] = priceHistories[k]
               /\ k \notin loadingBets'
      ]_vars

\* C9 witness: a key with a stored series was just selected again
C9_Witness ==
    /\ lastOp.op = <<"toggle", "select">>
    /\ "m1-YES" \in selectedBets
    /\ "m1-YES" \in DOMAIN priceHistories
    /\ Len(priceHistories["m1-YES"]) = 2
    /\ loadingBets = {}

\* C10 as stated: within one mount the fetch of a key is issued at most once,
\* whatever the outcomes.
C10_AsStated ==
    [][ \A k \in BetKeys : IssuesHistoryFetch(k) => k \notin fetchedBets ]_vars

\* C10 amended: the fetch of a key is issued only while the key is unselected
\* and has no stored series, so never while an earlier fetch of it is
\* outstanding and never after one succeeded; after a failed fetch selecting
\* the key issues a new one.
C10_FetchOnlyWithoutSeries ==
    [][ /\ \A k \in BetKeys :
               IssuesHistoryFetch(k)
               => k \notin selectedBets /\ k \notin DOMAIN priceHistories
        /\ \A k \in BetKeys :
               (lastOp.op = <<"historyFailed">> /\ k \notin selectedBets
                /\ k \notin DOMAIN priceHistories /\ k \in fetchedBets
                /\ k \in selectedBets')
               => IssuesHistoryFetch(k)
        /\ loadingBets \cap DOMAIN priceHistories = {}
      ]_vars

\* C10 witness: a key whose earlier fetch failed is being fetched again
C10_Witness ==
    /\ lastOp.op = <<"toggle", "refetch">>
    /\ "m1-NO" \in loadingBets

----------------------------------------------------------------------------
(* End to end: selection, store and rows *)

SeriesA == <<Point(0, 20), Point(600, 25)>>
SeriesB == <<Point(0, 80), Point(600, 75)>>

\* both keys are selected and their fetches returned the points of A and of B
PairLoaded ==
    /\ crypto = "NONE"
    /\ selectedBets = {"m1-YES", "m1-NO"}
    /\ loadingBets = {}
    /\ DOMAIN priceHistories = {"m1-YES", "m1-NO"}
    /\ PointsOf(priceHistories["m1-YES"]) = PointsOf(SeriesA)
    /\ PointsOf(priceHistories["m1-NO"]) = PointsOf(SeriesB)

\* C11: with the two keys selected, their fetched points A = {(0, 0.20),
\* (600, 0.25)} and B = {(0, 0.80), (600, 0.75)} (returned in any order), no
\* secondary series and the default tolerance of 270 s, the rows are exactly
\* t=0 with A=0.20, B=0.80, sum=1.00 followed by t=600 with A=0.25, B=0.75,
\* sum=1.00.
C11_TwoRowsInOrder ==
    PairLoaded =>
        chartRows = << ("timestamp" :> 0 @@ "m1-YES" :> 20 @@ "m1-NO" :> 80
                            @@ "sum" :> 100),
                       ("timestamp" :> 600 @@ "m1-YES" :> 25 @@ "m1-NO" :> 75
                            @@ "sum" :> 100) >>

\* C11 witness: the second of the two fetches has just completed
C11_Witness ==
    /\ PairLoaded
    /\ lastOp.op[1] = "historyFetched"
    /\ Len(chartRows) = 2

----------------------------------------------------------------------------
(* Properties of the secondary coverage state *)

\* the recorded bounds claim no sample the cached series lacks
BoundsBackedBySeries ==
    ~IsNull(cryptoCacheRef)
    => UpstreamPoints(Val(cryptoCacheRef).crypto, Val(cryptoCacheRef).min,
                      Val(cryptoCacheRef).max)
           \subseteq PointsOf(cryptoPrices)

\* C12: in every reachable state, if coverage bounds are recorded, every
\* sample the exchange holds for the cached kind with coveredMin <= t <=
\* coveredMax is in the cached secondary series.
C12_NoGapsInsideCoverage == BoundsBackedBySeries

\* the same for bounds that span more than one instant (holds in Spec: the
\* only bounds not backed by the series are those of a span with min = max,
\* for which fetchCryptoPriceHistory sends no request)
NoGapsWhenSpanNotAPoint ==
    (~IsNull(cryptoCacheRef) /\ Val(cryptoCacheRef).min < Val(cryptoCacheRef).max)
    => BoundsBackedBySeries

\* a sample of the series the exchange holds for a kind
SampleOf(kind, point) ==
    /\ kind \in CryptoKinds
    /\ point.t \in UpstreamTimes(kind)
    /\ point.p = ClosePrice(kind, point.t)

\* C13: in every reachable state the cached secondary series holds only
\* samples fetched for the active kind, recorded bounds name the active kind,
\* and a row carries a secondary value only under the active kind's label and
\* only a value of a sample of that kind.
C13_NoCrossKindReuse ==
    /\ \A i \in 1..Len(cryptoPrices) : SampleOf(crypto, cryptoPrices[i])
    /\ ~IsNull(cryptoCacheRef) => Val(cryptoCacheRef).crypto = crypto
    /\ \A row \in Rows : \A kind \in CryptoKinds :
           kind \in DOMAIN row
           => /\ kind = crypto
              /\ \E t \in UpstreamTimes(crypto) : row[kind] = ClosePrice(crypto, t)

\* C13 witness: the chart was opened with ETH and the fetch for it is
\* outstanding: nothing is cached and the rows built meanwhile carry no
\* secondary value
C13_Witness ==
    /\ crypto = "ETH"
    /\ cryptoRuns # EmptyBag
    /\ \A run \in Runs : run.crypto = "ETH"
    /\ cryptoPrices = <<>>
    /\ chartRows # <<>>
    /\ \A row \in Rows : DOMAIN row \cap CryptoKinds = {}

\* no bounds recorded and no cached series
CoverageEmpty == IsNull(cryptoCacheRef) /\ cryptoPrices = <<>>

\* the union span of the selection is empty
SpanEmpty == IsNull(timeRange(selectedBets, priceHistories))

\* C14: once the last selected key is deselected the secondary coverage is
\* empty, and it is empty for as long as the union span of the selection is
\* empty, whether or not a secondary fetch was outstanding when the span
\* became empty.
C14_CoverageEmptyWhileSpanEmpty ==
    (screen = "second" /\ SpanEmpty) => CoverageEmpty

----------------------------------------------------------------------------
(* Properties of the completion of primary fetches *)

\* this step is the completion (success or failure) of the fetch of key k
HistoryCompletes(k) ==
    /\ screen' = "second"
    /\ k \in loadingBets
    /\ k \notin loadingBets'

\* the checkbox of a key is disabled while its fetch is outstanding, so a key
\* with an outstanding fetch is a selected key
OutstandingKeysSelected == loadingBets \subseteq selectedBets

\* C15: the completion of a primary fetch, success or failure, adds no key
\* to the selection: every key that was not selected before the completion,
\* the completing key included, is not selected after it.
C15_CompletionAddsNoKey ==
    [][ \A k \in BetKeys :
            HistoryCompletes(k)
            => \A j \in BetKeys : j \notin selectedBets => j \notin selectedBets'
      ]_vars

\* C15 witness: the fetch of m1-NO has just succeeded while m1-YES, fetched
\* earlier and deselected since, stays out of the selection
C15_Witness ==
    /\ lastOp.op[1] = "historyFetched"
    /\ selectedBets = {"m1-NO"}
    /\ loadingBets = {}
    /\ DOMAIN priceHistories = {"m1-YES", "m1-NO"}

\* this step is the success of the fetch of key k with response `history`
HistorySucceeds(k, history) ==
    /\ HistoryCompletes(k)
    /\ lastOp'.op = <<"historyFetched", k, history>>

\* C16: when the fetch of a key succeeds, also while the fetch of the other
\* key is outstanding or has succeeded before, the key's stored series is the
\* sorted response of its own fetch, and the store's entry for every other
\* key is as before: not lost, not overwritten, not created.
C16_ConcurrentSelectsIndependent ==
    [][ \A k \in BetKeys : \A history \in HistoryResponses(k) :
            HistorySucceeds(k, history)
            => /\ k \in DOMAIN priceHistories'
               /\ IsSortedByT(priceHistories'[k])
               /\ PointsOf(priceHistories'[k]) = PointsOf(history)
               /\ Len(priceHistories'[k]) = Len(history)
               /\ \A j \in BetKeys \ {k} :
                      /\ j \in DOMAIN priceHistories' <=> j \in DOMAIN priceHistories
                      /\ j \in DOMAIN priceHistories
                             => priceHistories'[j] = priceHistories[j]
                      /\ j \in loadingBets' <=> j \in loadingBets
      ]_vars

\* C16 witness: both keys were selected with both fetches outstanding and
\* the fetch of m1-NO, answered in descending order, has just succeeded: its
\* series is stored sorted while the fetch of m1-YES is still outstanding
C16_Witness ==
    /\ lastOp.op = <<"historyFetched", "m1-NO",
                     <<Point(250, 65), Point(50, 61)>> >>
    /\ loadingBets = {"m1-YES"}
    /\ selectedBets = {"m1-YES", "m1-NO"}
    /\ DOMAIN priceHistories = {"m1-NO"}
    /\ priceHistories["m1-NO"] = <<Point(50, 61), Point(250, 65)>>

----------------------------------------------------------------------------
(* Properties of the secondary fetches of one call *)

\* the runs this step suspended
StartedRuns ==
    IF BagCardinality(cryptoRuns') > BagCardinality(cryptoRuns)
    THEN {run \in BagToSet(cryptoRuns') :
             CopiesIn(run, cryptoRuns') > CopiesIn(run, cryptoRuns)}
    ELSE {}

\* C17: a call that needs two delta sub-ranges issues both fetches in the
\* step in which it suspends, with neither completed; the arrival of the
\* first result, whichever it is, changes neither the series nor the bounds;
\* the merge happens in the step in which the second result arrives.
C17_BothRangesIssuedTogether ==
    [][ /\ \A run \in StartedRuns :
               Len(run.fetchRanges) = 2
               => /\ issuedCrypto' =
                         <<Call(run.crypto, run.fetchRanges[1].min,
                                run.fetchRanges[1].max),
                           Call(run.crypto, run.fetchRanges[2].min,
                                run.fetchRanges[2].max)>>
                  /\ run.done = {}
                  /\ UNCHANGED <<cryptoPrices, cryptoCacheRef>>
        /\ \A run \in Runs : \A i \in 1..Len(run.fetchRanges) :
               (CryptoFetched(run, i) /\ Len(run.fetchRanges) = 2)
               => IF run.done = {}
                  THEN /\ UNCHANGED <<cryptoPrices, cryptoCacheRef>>
                       /\ BagIn([run EXCEPT !.done = {i}], cryptoRuns')
                  ELSE /\ run.done \cup {i} = {1, 2}
                       /\ cryptoPrices' = RunPrices(run)
                       /\ lastOp'.op = <<"cryptoSettled", "delta">>
      ]_vars

\* C17 witness: a call with the two ranges [50, 100] and [200, 250] is
\* suspended; the later range has been answered, the earlier one is still
\* outstanding and nothing has been merged into the series of [100, 200]
C17_Witness ==
    /\ lastOp.op = <<"cryptoFetched">>
    /\ \E run \in Runs :
           /\ run.fetchRanges = <<[min |-> 50, max |-> 100],
                                  [min |-> 200, max |-> 250]>>
           /\ run.done = {2}
    /\ TimesOf(cryptoPrices) = {100, 150, 200}
    /\ cryptoCacheRef = Some(CacheEntry("BTC", 100, 200))

\* row carries every label of row0 with the same value
Carries(row, row0) ==
    \A l \in DOMAIN row0 : l \in DOMAIN row /\ row[l] = row0[l]

\* the rows chartData builds from the selection and the store alone
PrimaryRows(sb, ph) ==
    LET rows == chartData(sb, ph, "NONE", <<>>)
    IN {rows[i] : i \in 1..Len(rows)}

\* C18: a failed secondary fetch leaves the selection and every stored
\* primary series as they were, sets the error that names the secondary
\* kind, and the rows after it carry, at every timestamp of a primary
\* sample, every primary value and sum the rows built without a secondary
\* series carry.
C18_CryptoFailureFrame ==
    [][ lastOp'.op[1] = "cryptoFailed"
        => /\ selectedBets' = selectedBets
           /\ priceHistories' = priceHistories
           /\ loadingBets' = loadingBets
           /\ error' = CryptoError(crypto)
           /\ crypto \in CryptoKinds
           /\ \A row0 \in PrimaryRows(selectedBets', priceHistories') :
                  \E i \in 1..Len(chartRows') : Carries(chartRows'[i], row0)
      ]_vars

\* C18 witness: the first secondary fetch has just failed with both keys
\* selected: the error names BTC, no secondary series is cached and the rows
\* carry both primary values and their sum
C18_Witness ==
    /\ lastOp.op[1] = "cryptoFailed"
    /\ error = CryptoError("BTC")
    /\ cryptoPrices = <<>>
    /\ selectedBets = {"m1-YES", "m1-NO"}
    /\ Len(chartRows) = 4
    /\ \A i \in 1..Len(chartRows) :
           {"m1-YES", "m1-NO", "sum"} \subseteq DOMAIN chartRows[i]

----------------------------------------------------------------------------
(* Properties of the stored series *)

\* C19: every series in the store is sorted ascending by t; the series
\* stored when a fetch succeeds holds exactly the points of the response,
\* each once, whatever their order in the response.
C19_StoredSeriesSorted ==
    [][ /\ \A k \in DOMAIN priceHistories' : IsSortedByT(priceHistories'[k])
        /\ \A k \in BetKeys : \A history \in HistoryResponses(k) :
               HistorySucceeds(k, history)
               => /\ PointsOf(priceHistories'[k]) = PointsOf(history)
                  /\ Len(priceHistories'[k]) = Len(history)
      ]_vars

\* C19 witness: the response for m1-YES arrived in descending order and is
\* stored ascending
C19_Witness ==
    /\ lastOp.op = <<"historyFetched", "m1-YES",
                     <<Point(200, 34), Point(100, 32)>> >>
    /\ priceHistories["m1-YES"] = <<Point(100, 32), Point(200, 34)>>

\* C20: in every reachable state, after any sequence of full fetches, delta
\* merges, resets and failures, the cached secondary series is sorted
\* strictly ascending by t: no two of its samples share a timestamp.
C20_CachedSeriesStrictlyAscending == IsStrictByT(cryptoPrices)

\* C20 witness: a delta call for [50, 100] and [200, 250] has just merged its
\* results, which repeat the samples at t=100 and t=200 of the cached series
\* of [100, 200]; the series holds each of the five timestamps once
C20_Witness ==
    /\ lastOp.op = <<"cryptoSettled", "delta">>
    /\ cryptoCacheRef = Some(CacheEntry("BTC", 50, 250))
    /\ Len(cryptoPrices) = 5
    /\ TimesOf(cryptoPrices) = {50, 100, 150, 200, 250}

----------------------------------------------------------------------------
(* Properties of the coverage once the secondary fetches have settled *)

\* C21: whenever a secondary kind is active, the union span of the selected
\* loaded series is non-empty and no secondary fetch is outstanding, every
\* issued one having succeeded, bounds are recorded and they contain the
\* union span; also when the span changed while an earlier fetch was
\* outstanding.
C21_SettledCoverageContainsSpan ==
    ( /\ screen = "second"
      /\ crypto \in CryptoKinds
      /\ ~SpanEmpty
      /\ cryptoRuns = EmptyBag )
    => /\ ~IsNull(cryptoCacheRef)
       /\ Inside(Val(timeRange(selectedBets, priceHistories)),
                 Val(cryptoCacheRef))

----------------------------------------------------------------------------
(* Properties of the rows *)

\* the timestamps of the stored series of the selected keys and, with a
\* secondary kind active, of the cached secondary series
RowTimestamps ==
    UNION {TimesOf(priceHistories[k]) : k \in selectedBets \cap DOMAIN priceHistories}
    \cup (IF crypto # "NONE" THEN TimesOf(cryptoPrices) ELSE {})

\* C22: the rows built by chartData are one row per distinct timestamp of
\* the stored series of the selected keys and, with a secondary kind active,
\* of the cached secondary series, in strictly ascending order of timestamp;
\* a timestamp found only in the stored series of a key that is not selected
\* has no row.
C22_OneRowPerTimestampAscending ==
    RowsBuilt =>
        /\ {chartRows[i]["timestamp"] : i \in 1..Len(chartRows)} = RowTimestamps
        /\ Len(chartRows) = Cardinality(RowTimestamps)
        /\ \A i \in 1..(Len(chartRows) - 1) :
               chartRows[i]["timestamp"] < chartRows[i + 1]["timestamp"]

\* C22 witness: m1-YES is selected with samples at 10 and 20, m1-NO is
\* stored with a sample at 400 but not selected, the secondary series has
\* samples at 20 and 130: the rows are those of 10, 20 and 130
C22_Witness ==
    /\ RowsBuilt
    /\ crypto = "BTC"
    /\ selectedBets = {"m1-YES"}
    /\ DOMAIN priceHistories = {"m1-YES", "m1-NO"}
    /\ TimesOf(priceHistories["m1-YES"]) = {10, 20}
    /\ TimesOf(priceHistories["m1-NO"]) = {400}
    /\ Len(chartRows) = 3

\* the indices of the samples of a series within w seconds of t
Within(series, t, w) == {j \in 1..Len(series) : Abs(series[j].t - t) <= w}

\* v is the price of a sample of the series that is within w of t and as
\* close to t as any sample
IsNearestValue(series, t, w, v) ==
    \E j \in Within(series, t, w) :
        /\ series[j].p = v
        /\ \A i \in 1..Len(series) : Abs(series[j].t - t) <= Abs(series[i].t - t)

\* C23: in every row, a selected key has a value iff its stored series has a
\* sample within 270 seconds of the row's timestamp, and the value is that of
\* a nearest such sample; the secondary label has a value iff a secondary
\* kind is active and the secondary series has a sample within 120 seconds
\* of the row's timestamp, and the value is that of a nearest such sample; no
\* other key or kind has a value.
C23_RowValuesWithinTolerance ==
    RowsBuilt =>
        \A row \in Rows :
            LET t == row["timestamp"]
            IN /\ \A k \in RowKeys :
                      /\ k \in DOMAIN row
                             <=> /\ k \in selectedBets
                                 /\ k \in DOMAIN priceHistories
                                 /\ Within(priceHistories[k], t, 270) # {}
                      /\ k \in DOMAIN row
                             => IsNearestValue(priceHistories[k], t, 270, row[k])
               /\ \A kind \in CryptoKinds :
                      /\ kind \in DOMAIN row
                             <=> /\ kind = crypto
                                 /\ Within(cryptoPrices, t, 120) # {}
                      /\ kind \in DOMAIN row
                             => IsNearestValue(cryptoPrices, t, 120, row[kind])

\* C23 witness: m1-YES is selected with samples at 20 and 400 and the
\* secondary series has samples at 20 and 130: the row at 130 takes the
\* sample of m1-YES 110 seconds away, the row at 400 has no secondary value
\* (the nearest is 270 seconds away)
C23_Witness ==
    /\ RowsBuilt
    /\ crypto = "BTC"
    /\ selectedBets = {"m1-YES"}
    /\ \E row \in RowsAt(130) :
           /\ {"m1-YES", "BTC"} \subseteq DOMAIN row
           /\ row["m1-YES"] = 40
           /\ row["BTC"] = 1130
    /\ \E row \in RowsAt(400) :
           /\ "m1-YES" \in DOMAIN row
           /\ row["m1-YES"] = 50
           /\ "BTC" \notin DOMAIN row

----------------------------------------------------------------------------
(* Properties of the issuing of secondary fetches *)

\* C24: fetchCryptoPriceHistory is called, and a fetchCrypto run suspended,
\* only by an event after which a secondary kind is active and the union
\* span of the selection is not empty; the calls are for that kind.
C24_NoFetchWithoutKindOrSpan ==
    [][ (issuedCrypto' # <<>> \/ StartedRuns # {})
        => /\ screen' = "second"
           /\ crypto' \in CryptoKinds
           /\ ~IsNull(timeRange(selectedBets', priceHistories'))
           /\ \A c \in IssuedSet(issuedCrypto') : c.crypto = crypto'
      ]_vars

\* C24 witness: with kind NONE a history has just been stored, the union
\* span is not empty, the effect took its early return and no fetch was
\* issued
C24_Witness ==
    /\ crypto = "NONE"
    /\ screen = "second"
    /\ lastOp.op[1] = "historyFetched"
    /\ lastOp.effect = "reset"
    /\ ~SpanEmpty
    /\ issuedCrypto = <<>>
    /\ cryptoRuns = EmptyBag

----------------------------------------------------------------------------
(* Properties of the selection and the loading set *)

\* C25: in every reachable state each selected key has a stored series or
\* an outstanding primary fetch; a selected key whose fetch is not
\* outstanding has a stored series.
C25_SelectedHasDataOrFetch ==
    \A k \in selectedBets : k \in DOMAIN priceHistories \/ k \in loadingBets

\* C25 witness: the fetch of m1-NO has just failed and the key was
\* deselected, while m1-YES stays selected with its stored series
C25_Witness ==
    /\ lastOp.op = <<"historyFailed">>
    /\ error = HistoryError("m1-NO")
    /\ selectedBets = {"m1-YES"}
    /\ loadingBets = {}
    /\ DOMAIN priceHistories = {"m1-YES"}

\* C26: a select that starts a fetch puts its key in the loading set; and,
\* every issued fetch eventually completing, a key that is loading is
\* eventually not loading and then either selected with a stored series or
\* not selected.
C26_LoadingEventuallySettles ==
    /\ [][ lastOp'.op \in {<<"toggle", "fetch">>, <<"toggle", "refetch">>}
           => \E k \in BetKeys :
                  /\ k \notin selectedBets
                  /\ k \in selectedBets'
                  /\ k \in loadingBets' \ loadingBets ]_vars
    /\ \A k \in BetKeys :
           (k \in loadingBets)
           ~> ( /\ k \notin loadingBets
                /\ k \notin selectedBets \/ k \in DOMAIN priceHistories )

\* C26 witness: the fetch of m1-NO, started by its select, has just
\* completed with an empty response: the key is not loading and is selected
\* with a stored series
C26_Witness ==
    /\ lastOp.op = <<"historyFetched", "m1-NO", <<>> >>
    /\ selectedBets = {"m1-NO"}
    /\ loadingBets = {}
    /\ DOMAIN priceHistories = {"m1-NO"}

\* C27: the union span always has min <= max; every call of
\* fetchCryptoPriceHistory has start <= end; and every delta sub-range is
\* issued with its lower bound strictly below its upper bound.
C27_IssuedRangesWellFormed ==
    [][ /\ ~IsNull(timeRange(selectedBets', priceHistories'))
           => Val(timeRange(selectedBets', priceHistories')).min
                  <= Val(timeRange(selectedBets', priceHistories')).max
        /\ \A c \in IssuedSet(issuedCrypto') : c.min <= c.max
        /\ \A run \in StartedRuns :
               ~run.full
               => /\ \A i \in 1..Len(run.fetchRanges) :
                         run.fetchRanges[i].min < run.fetchRanges[i].max
                  /\ IssuedSet(issuedCrypto') =
                         {Call(run.crypto, run.fetchRanges[i].min,
                               run.fetchRanges[i].max) :
                             i \in 1..Len(run.fetchRanges)}
      ]_vars

\* C27 witness: coverage [100, 200], span [100, 250]: the lower bounds are
\* equal, and only the range [200, 250] has been issued
C27_Witness ==
    /\ cryptoCacheRef = Some(CacheEntry("BTC", 100, 200))
    /\ timeRange(selectedBets, priceHistories) = Some([min |-> 100, max |-> 250])
    /\ issuedCrypto = <<Call("BTC", 200, 250)>>

----------------------------------------------------------------------------
(* Properties of the secondary loading flag *)

\* C28: loadingCrypto is true in every state in which a secondary fetch is
\* outstanding, also when two fetchCrypto runs overlap and one of them
\* completes before the other.
C28_LoadingWhileFetchOutstanding ==
    cryptoRuns # EmptyBag => loadingCrypto

----------------------------------------------------------------------------
(* Properties of the growth of the coverage *)

\* C29: while the kind stays the same and the union span stays non-empty,
\* the covered interval never shrinks: a step that leaves recorded bounds
\* behind, a successful call in particular, leaves bounds with a minimum not
\* above and a maximum not below the earlier ones, and every sample of the
\* cached series is still in it.
C29_CoverageNeverShrinks ==
    [][ ( /\ screen = "second" /\ screen' = "second"
          /\ crypto' = crypto
          /\ ~SpanEmpty
          /\ ~IsNull(timeRange(selectedBets', priceHistories'))
          /\ ~IsNull(cryptoCacheRef) )
        => /\ ~IsNull(cryptoCacheRef')
           /\ Val(cryptoCacheRef').min <= Val(cryptoCacheRef).min
           /\ Val(cryptoCacheRef').max >= Val(cryptoCacheRef).max
           /\ PointsOf(cryptoPrices) \subseteq PointsOf(cryptoPrices')
      ]_vars

----------------------------------------------------------------------------
(* Properties of fetchCryptoPriceHistory *)

KlinesTerminated ==
    ~IsNull(klinesCall) /\ Val(klinesCall).pc \in {"returned", "rejected"}

\* C30: fetchCryptoPriceHistory terminates for every start and end: with
\* start >= end it sends no request; otherwise every answered request with
\* a non-empty page moves the page start at least one minute past its old
\* value, never past one minute after the end, an empty page or a failed
\* request ends the call, and the call ends after finitely many requests.
C30_PaginationTerminates ==
    /\ <>KlinesTerminated
    /\ [](KlinesTerminated /\ Val(klinesCall).startTime >= Val(klinesCall).endTime
              => Val(klinesCall).requests = 0)
    /\ [][ (~IsNull(klinesCall) /\ ~IsNull(klinesCall')
            /\ Val(klinesCall').requests > Val(klinesCall).requests)
           => /\ Val(klinesCall).currentStartTime < Val(klinesCall).endTimeMs
              /\ Val(klinesCall').requests = Val(klinesCall).requests + 1
              /\ \/ Val(klinesCall').pc \in {"returned", "rejected"}
                 \/ /\ Val(klinesCall').currentStartTime
                           >= Val(klinesCall).currentStartTime + 60000
                    /\ Val(klinesCall').currentStartTime
                           <= Val(klinesCall).endTimeMs + 60000 ]_vars

\* C30 witness: a call over 2500 intervals of five minutes has returned
\* after three requests: two pages of 1000 and 101 candles and an empty one
C30_Witness ==
    /\ KlinesTerminated
    /\ Val(klinesCall).pc = "returned"
    /\ Val(klinesCall).interval = 300
    /\ Val(klinesCall).startTime = 300000
    /\ Val(klinesCall).endTime = 750000
    /\ Val(klinesCall).requests = 3
    /\ Len(Val(klinesCall).allKlines) = 1101

\* indices of the exchange's candles on the grid of `interval` seconds whose
\* open time lies in [startTime, endTime]
CandlesWithin(interval, startTime, endTime) ==
    {g \in 0..MaxCandles : startTime <= g * interval /\ g * interval <= endTime}

\* C31: against an exchange that holds candles on a 5-minute grid and
\* answers each request with the first up to 1000 candles with open time in
\* [page start, end], a call with start < end that has returned has returned
\* every candle of the exchange with open time in [start, end] exactly once,
\* ascending by t, with t in whole seconds and p the candle's close price.
C31_ReturnsEveryCandleOnce ==
    (/\ ~IsNull(klinesCall)
     /\ Val(klinesCall).pc = "returned"
     /\ Val(klinesCall).interval = 300
     /\ Val(klinesCall).startTime < Val(klinesCall).endTime)
    => LET call == Val(klinesCall)
           G == CandlesWithin(300, call.startTime, call.endTime)
       IN /\ Len(call.result) = Cardinality(G)
          /\ {call.result[i].t : i \in 1..Len(call.result)} = {g * 300 : g \in G}
          /\ \A i \in 1..(Len(call.result) - 1) :
                 call.result[i].t < call.result[i + 1].t
          /\ \A i \in 1..Len(call.result) :
                 call.result[i].p = ClosePrice(call.crypto, call.result[i].t)

\* C31 witness: a call over [0, 1000 * 300] has returned 1001 points after
\* two requests, the second of which returned the one candle that did not
\* fit the first page
C31_Witness ==
    /\ ~IsNull(klinesCall)
    /\ Val(klinesCall).pc = "returned"
    /\ Val(klinesCall).interval = 300
    /\ Val(klinesCall).startTime = 0
    /\ Val(klinesCall).endTime = 300000
    /\ Val(klinesCall).requests = 2
    /\ Len(Val(klinesCall).result) = 1001
    /\ Val(klinesCall).result[1001].t = 300000

====
